---- MODULE Spec2Model ----
(***************************************************************************)
(* Model of the two classes of the repository:                             *)
(*   naive_bayes/naive_bayes.py     class NaiveBayes                       *)
(*   neural_network/neural_net.py   class TwoLayerNet                      *)
(* The two classes are independent.  SpecNB explores the calls on one      *)
(* NaiveBayes instance, SpecNet the loss and predict calls on one          *)
(* TwoLayerNet instance, SpecTrain one train call on it.  Floating point   *)
(* values are drawn from integer-valued floats, on which +, * and          *)
(* comparison are exact.                                                   *)
(***************************************************************************)
EXTENDS Integers, Sequences, FiniteSets, TLC

VARIABLES
  \* NaiveBayes instance
  class_counts,          \* self.class_counts: label -> total
  class_feature_counts,  \* self.class_feature_counts: label -> token -> count
  class_freq,            \* self.class_freq: None or Counter of the labels
  alpha,                 \* self.alpha
  p,                     \* self.p: None or the number of features
  nfit,                  \* number of fit calls made on the instance
  call,                  \* the last call on the instance and how it ended
  \* TwoLayerNet instance
  params,                \* self.params: key -> array
  ret,                   \* the last call on the net and what it gave back
  pc,                    \* position of the train call
  tr                     \* arguments and locals of the train call

nbvars == <<class_counts, class_feature_counts, class_freq, alpha, p, nfit, call>>
netvars == <<params, ret, pc, tr>>
vars == <<nbvars, netvars>>

\* ---------------------------------------------------------------- bounds
MaxDocs == 2       \* documents in the first fit call of an instance
MaxLaterDocs == 1  \* documents in a refit and in a classification call
MaxFits == 2       \* fit calls on one instance
Alpha == 2         \* the constructor's argument alpha

Tokens == {"a", "b"}
Labels == {0, 1}

\* ------------------------------------------------------- python values
\* None / a value: an optional is the empty set or a singleton.
None == {}
Some(v) == {v}
Val(o) == CHOOSE v \in o : TRUE

Range(s) == {s[i] : i \in DOMAIN s}

SeqsUpTo(S, n) == UNION {[1..k -> S] : k \in 0..n}

\* The documents calls are made with: lengths 0, 1 and 2, a repeated token
Documents == {<<>>, <<"a">>, <<"b", "b">>}
DocLists(n) == SeqsUpTo(Documents, n)
\* The label vectors tried with X: one label short, matching, one too many
LabelVectors(X) == UNION {[1..k -> Labels] : k \in {Len(X) - 1, Len(X), Len(X) + 1}}

\* collections.Counter(y)
Counter(y) == [c \in Range(y) |-> Cardinality({i \in DOMAIN y : y[i] = c})]

\* len(set(itertools.chain(*X)))
NumFeatures(X) == Cardinality(UNION {Range(X[i]) : i \in DOMAIN X})

\* ---------------------------------------------------------- NaiveBayes
\* First loop of _compute_likelihoods, from position idx on.  X[idx] with
\* idx beyond the documents raises IndexError and leaves the totals added
\* so far in place.
RECURSIVE CountLoop(_, _, _, _)
CountLoop(cc, X, y, idx) ==
  IF idx > Len(y) THEN [counts |-> cc, raised |-> FALSE]
  ELSE IF idx > Len(X) THEN [counts |-> cc, raised |-> TRUE]
  ELSE LET c == y[idx]
       IN CountLoop(IF c \in DOMAIN cc
                       THEN [cc EXCEPT ![c] = @ + Len(X[idx])]
                       ELSE cc @@ (c :> Len(X[idx])),
                    X, y, idx + 1)

AddSmoothingOnce(cc, pp, a) == [k \in DOMAIN cc |-> cc[k] + a]

\* Second loop of _compute_likelihoods: every key gets p * alpha added.
AddSmoothing(cc, pp, a) == [k \in DOMAIN cc |-> cc[k] + pp * a]

compute_likelihoods(cc, X, y, pp, a) ==
  LET r == CountLoop(cc, X, y, 1)
  IN IF r.raised
        THEN [counts |-> r.counts, outcome |-> "IndexError"]
        ELSE [counts |-> AddSmoothing(r.counts, pp, a), outcome |-> "ok"]

\* NaiveBayes.__init__(alpha)
NaiveBayesInit ==
  /\ class_counts = <<>>
  /\ class_feature_counts = <<>>
  /\ class_freq = None
  /\ alpha = Alpha
  /\ p = None
  /\ nfit = 0
  /\ call = [op |-> "init", X |-> <<>>, y |-> <<>>, outcome |-> "ok"]

\* fit(X, y)
Fit(X, y) ==
  /\ nfit < MaxFits
  /\ LET pp == NumFeatures(X)
         r == compute_likelihoods(class_counts, X, y, pp, alpha)
     IN /\ class_freq' = Some(Counter(y))
        /\ p' = Some(pp)
        /\ class_counts' = r.counts
        /\ call' = [op |-> "fit", X |-> X, y |-> y, outcome |-> r.outcome]
  /\ nfit' = nfit + 1
  /\ UNCHANGED <<class_feature_counts, alpha>>

\* posteriors(X): the body is `pass`, the call returns None.
posteriors(X) == None

\* The label predict picks from one posterior mapping: a key of maximal value.
ArgMaxLabel(post) ==
  CHOOSE l \in DOMAIN post : \A m \in DOMAIN post : post[m] <= post[l]

\* predict(X): iterating over the None that posteriors returns raises
\* TypeError before any label is picked.
predict(X) ==
  LET posts == posteriors(X)
  IN IF posts = None
        THEN [outcome |-> "TypeError", value |-> <<>>]
        ELSE [outcome |-> "ok",
              value |-> [i \in DOMAIN Val(posts) |-> ArgMaxLabel(Val(posts)[i])]]

Posteriors(X) ==
  /\ call' = [op |-> "posteriors", X |-> <<>>, y |-> <<>>, outcome |-> "ok"]
  /\ UNCHANGED <<class_counts, class_feature_counts, class_freq, alpha, p, nfit>>

PredictTouch(X) ==
  /\ call' = [op |-> "predict", X |-> <<>>, y |-> <<>>,
              outcome |-> predict(X).outcome]
  /\ class_counts' = [l \in DOMAIN class_counts \cup Labels |->
                         IF l \in DOMAIN class_counts THEN class_counts[l] ELSE 0]
  /\ UNCHANGED <<class_feature_counts, class_freq, alpha, p, nfit>>

Predict(X) ==
  /\ call' = [op |-> "predict", X |-> <<>>, y |-> <<>>,
              outcome |-> predict(X).outcome]
  /\ UNCHANGED <<class_counts, class_feature_counts, class_freq, alpha, p, nfit>>

\* score(X, y): np.mean(self.predict(X) == y); the error of predict propagates.
Score(X, y) ==
  /\ call' = [op |-> "score", X |-> <<>>, y |-> <<>>,
              outcome |-> predict(X).outcome]
  /\ UNCHANGED <<class_counts, class_feature_counts, class_freq, alpha, p, nfit>>

FitStep ==
  /\ nfit < MaxFits
  /\ \E X \in DocLists(IF nfit = 0 THEN MaxDocs ELSE MaxLaterDocs) :
      \E y \in LabelVectors(X) : Fit(X, y)
PosteriorsStep == \E X \in DocLists(MaxLaterDocs) : Posteriors(X)
PredictStep == \E X \in DocLists(MaxLaterDocs) : Predict(X)
ScoreStep == \E X \in DocLists(MaxLaterDocs) : \E y \in LabelVectors(X) : Score(X, y)

\* ---------------------------------------------------------- TwoLayerNet
InputSize == 1
HiddenSize == 1
OutputSize == 2
MaxN == 2
MaxIters == 2
MaxBatch == 2

WeightVals == {-1, 0, 1}
XVals == {0, 1}
RegVals == {1}

Matrices(S, n, m) == [1..n -> [1..m -> S]]
Zeros(n) == [j \in 1..n |-> 0]

\* A weight matrix of shape (n, m) whose entries alternate between v and -v
Weights(v, n, m) ==
  [i \in 1..n |-> [j \in 1..m |-> IF (i + j) % 2 = 0 THEN v ELSE 0 - v]]

\* Data of shape (N, D) for N in 1..n
Inputs(n) == UNION {Matrices(XVals, k, InputSize) : k \in 1..n}

RECURSIVE Sigma(_, _)
Sigma(f, n) == IF n = 0 THEN 0 ELSE f[n] + Sigma(f, n - 1)

Max(a, b) == IF a >= b THEN a ELSE b

\* A.dot(B) for A of shape (n, k) and B of shape (k, m)
Dot(A, B) ==
  [i \in 1..Len(A) |->
     [j \in 1..Len(B[1]) |->
        Sigma([k \in 1..Len(B) |-> A[i][k] * B[k][j]], Len(B))]]

\* M + b, the vector b broadcast over the rows of M
AddBias(M, b) == [i \in 1..Len(M) |-> [j \in 1..Len(b) |-> M[i][j] + b[j]]]

\* np.maximum(0, M)
Relu(M) == [i \in 1..Len(M) |-> [j \in 1..Len(M[i]) |-> Max(0, M[i][j])]]

\* np.argmax(scores, axis=1): per row the 0-based index of the first maximum
ArgMax(row) ==
  (CHOOSE j \in 1..Len(row) :
      /\ \A k \in 1..Len(row) : row[k] <= row[j]
      /\ \A k \in 1..(j - 1) : row[k] < row[j]) - 1

\* d[k] on a python dict
GetItem(d, k) ==
  IF k \in DOMAIN d THEN [outcome |-> "ok", value |-> d[k]]
                    ELSE [outcome |-> "KeyError", value |-> <<>>]

ParamKeys == {"W1", "b1", "W2", "b2"}

\* TwoLayerNet.__init__(input_size, hidden_size, output_size)
TwoLayerNetInit ==
  /\ \E v \in WeightVals : \E w \in WeightVals :
       params = [k \in ParamKeys |->
                   CASE k = "W1" -> Weights(v, InputSize, HiddenSize)
                     [] k = "b1" -> Zeros(HiddenSize)
                     [] k = "W2" -> Weights(w, HiddenSize, OutputSize)
                     [] k = "b2" -> Zeros(OutputSize)]
  /\ ret = [op |-> "init", outcome |-> "ok", value |-> <<>>]
  /\ pc = "idle"
  /\ tr = <<>>

\* The names bound inside loss before the backward pass starts, and the
\* names bound at module level of neural_net.py.
LossLocals == {"self", "X", "y", "reg", "W1", "b1", "W2", "b2", "N", "D", "h1",
               "scores", "exp_scores", "probabilities", "neg_logprobs",
               "data_loss", "reg_loss", "loss", "grads"}
ModuleGlobals == {"print_function", "np", "plt", "xrange", "TwoLayerNet"}

\* The forward pass of loss: scores of shape (N, C)
Scores(prm, X) ==
  LET h1 == Relu(AddBias(Dot(X, prm["W1"]), prm["b1"]))
  IN AddBias(Dot(h1, prm["W2"]), prm["b2"])

\* loss(X, y, reg); y is None or Some(label vector).
\* Without labels the scores are returned.  With labels the softmax loss is
\* computed in locals (probabilities[range(N), y] raises IndexError for a
\* label outside -C..C-1), then the backward pass starts by reading the name
\* probs, which is bound neither in loss nor in the module: NameError, and
\* no gradient is produced.
loss(prm, X, y, reg) ==
  LET scores == Scores(prm, X)
  IN IF y = None
        THEN [outcome |-> "ok", kind |-> "scores", value |-> scores]
     ELSE IF \E i \in DOMAIN Val(y) :
                Val(y)[i] \notin (0 - OutputSize)..(OutputSize - 1)
        THEN [outcome |-> "IndexError", kind |-> "raise", value |-> <<>>]
     ELSE IF "probs" \notin LossLocals \cup ModuleGlobals
        THEN [outcome |-> "NameError", kind |-> "raise", value |-> <<>>]
     \* (loss, grads): lines 129-161 fill grads under the keys W2, b2, W1, b1
     ELSE [outcome |-> "ok", kind |-> "loss_grads", value |-> ParamKeys]

\* predict(X): the first subscript evaluated is self.params['X1'].
net_predict(prm, X) ==
  LET w == GetItem(prm, "X1")
  IN IF w.outcome # "ok"
        THEN [outcome |-> w.outcome, value |-> <<>>]
        ELSE LET h1 == Relu(AddBias(Dot(X, w.value), prm["b1"]))
                 scores == AddBias(Dot(h1, prm["W2"]), prm["b2"])
             IN [outcome |-> "ok",
                 value |-> [i \in 1..Len(scores) |-> ArgMax(scores[i])]]

\* a call net.loss(X) from outside
LossScores(X) ==
  /\ pc = "idle"
  /\ LET r == loss(params, X, None, 0)
     IN ret' = [op |-> "loss", N |-> Len(X), y |-> None,
                outcome |-> r.outcome, kind |-> r.kind, value |-> r.value]
  /\ UNCHANGED <<params, pc, tr>>

\* a call net.loss(X, y, reg) from outside
LossLabels(X, y, reg) ==
  /\ pc = "idle"
  /\ LET r == loss(params, X, Some(y), reg)
     IN ret' = [op |-> "loss", N |-> Len(X), y |-> Some(y),
                outcome |-> r.outcome, kind |-> r.kind, value |-> r.value]
  /\ UNCHANGED <<params, pc, tr>>

\* a call net.predict(X) from outside
NetPredict(X) ==
  /\ pc = "idle"
  /\ LET r == net_predict(params, X)
     IN ret' = [op |-> "predict", X |-> X,
                outcome |-> r.outcome, value |-> r.value]
  /\ UNCHANGED <<params, pc, tr>>

\* max(num_train / batch_size, 1) under true division, as a fraction
IterationsPerEpoch(num_train, batch_size) ==
  IF num_train >= batch_size THEN [num |-> num_train, den |-> batch_size]
                             ELSE [num |-> 1, den |-> 1]

\* train(...) up to the loop: lines 194-200.  batch_size is a number of
\* examples per step, at least 1.
TrainStart(X, y, X_val, y_val, reg, num_iters, batch_size) ==
  /\ pc = "idle"
  /\ tr' = [X |-> X, y |-> y, X_val |-> X_val, y_val |-> y_val, reg |-> reg,
            num_iters |-> num_iters, batch_size |-> batch_size,
            num_train |-> Len(X),
            iterations_per_epoch |-> IterationsPerEpoch(Len(X), batch_size),
            loss_history |-> <<>>, train_acc_history |-> <<>>,
            val_acc_history |-> <<>>, decays |-> 0, it |-> 0,
            params_at_call |-> params]
  /\ pc' = "loop"
  /\ ret' = [op |-> "train", outcome |-> "running", value |-> <<>>]
  /\ UNCHANGED params

LoopContinuesOnce(it, num_iters) == it <= num_iters

\* for it in xrange(num_iters)
LoopContinues(it, num_iters) == it < num_iters

\* One pass of the loop body.  The batch is sampled with replacement and
\* loss is called with its labels; that call raises for every batch, the
\* exception leaves train, and lines 220-249 (history, update, epoch check)
\* are not reached.
TrainIter ==
  /\ pc = "loop"
  /\ LoopContinues(tr.it, tr.num_iters)
  /\ \E sample_indices \in [1..tr.batch_size -> 1..tr.num_train] :
       LET X_batch == [i \in 1..tr.batch_size |-> tr.X[sample_indices[i]]]
           y_batch == [i \in 1..tr.batch_size |-> tr.y[sample_indices[i]]]
           r == loss(params, X_batch, Some(y_batch), tr.reg)
       IN /\ r.outcome # "ok"
          /\ pc' = "raised"
          /\ ret' = [op |-> "train", outcome |-> r.outcome, value |-> <<>>]
  /\ UNCHANGED <<params, tr>>

\* the return statement after the loop
TrainReturn ==
  /\ pc = "loop"
  /\ ~LoopContinues(tr.it, tr.num_iters)
  /\ pc' = "returned"
  /\ ret' = [op |-> "train", outcome |-> "ok",
             value |-> [loss_history |-> tr.loss_history,
                        train_acc_history |-> tr.train_acc_history,
                        val_acc_history |-> tr.val_acc_history]]
  /\ UNCHANGED <<params, tr>>

LabelsFor(X) == [1..Len(X) -> 0..(OutputSize - 1)]

LossScoresStep == \E X \in Inputs(MaxN) : LossScores(X)
LossLabelsStep ==
  \E X \in Inputs(MaxN) : \E y \in [1..Len(X) -> 0..OutputSize] :
    \E reg \in RegVals : LossLabels(X, y, reg)
NetPredictStep == \E X \in Inputs(MaxN) : NetPredict(X)
TrainStartStep ==
  /\ pc = "idle"
  /\ \E X \in Inputs(MaxN) : \E y \in LabelsFor(X) :
       \E reg \in RegVals : \E num_iters \in 0..MaxIters :
         \E batch_size \in 1..MaxBatch :
           \* validation on one of the training examples
           \E v \in 1..Len(X) :
             TrainStart(X, y, <<X[v]>>, <<y[v]>>, reg, num_iters, batch_size)

\* ------------------------------------------------------- specifications
NaiveBayesAbsent ==
  /\ class_counts = <<>>
  /\ class_feature_counts = <<>>
  /\ class_freq = None
  /\ alpha = Alpha
  /\ p = None
  /\ nfit = 0
  /\ call = [op |-> "init", X |-> <<>>, y |-> <<>>, outcome |-> "ok"]

NetAbsent ==
  /\ params = <<>>
  /\ ret = <<>>
  /\ pc = "idle"
  /\ tr = <<>>

InitNB == NaiveBayesInit /\ NetAbsent

NextNB ==
  \/ (FitStep /\ UNCHANGED netvars)
  \/ (PosteriorsStep /\ UNCHANGED netvars)
  \/ (PredictStep /\ UNCHANGED netvars)
  \/ (ScoreStep /\ UNCHANGED netvars)

SpecNB == InitNB /\ [][NextNB]_vars

InitNet == TwoLayerNetInit /\ NaiveBayesAbsent

\* calls of loss and predict on one net
NextNet ==
  \/ (LossScoresStep /\ UNCHANGED nbvars)
  \/ (LossLabelsStep /\ UNCHANGED nbvars)
  \/ (NetPredictStep /\ UNCHANGED nbvars)

SpecNet == InitNet /\ [][NextNet]_vars

\* one train call on a net
NextTrain ==
  \/ (TrainStartStep /\ UNCHANGED nbvars)
  \/ (TrainIter /\ UNCHANGED nbvars)
  \/ (TrainReturn /\ UNCHANGED nbvars)

SpecTrain == InitNet /\ [][NextTrain]_vars

\* ------------------------------------------------------------ properties
\* Sum of len(X[i]) over the positions i of y that carry label c
RECURSIVE TokensOfLabel(_, _, _, _)
TokensOfLabel(X, y, c, n) ==
  IF n = 0 THEN 0
  ELSE (IF y[n] = c THEN Len(X[n]) ELSE 0) + TokensOfLabel(X, y, c, n - 1)

\* The distinct tokens occurring in some document of X
Vocabulary(X) == {t \in Tokens : \E i \in DOMAIN X : \E j \in DOMAIN X[i] : X[i][j] = t}

\* Number of occurrences of token t in the documents of X labelled c
RECURSIVE Occurrences(_, _, _, _, _)
Occurrences(X, y, c, t, n) ==
  IF n = 0 THEN 0
  ELSE (IF y[n] = c THEN Cardinality({j \in DOMAIN X[n] : X[n][j] = t}) ELSE 0)
       + Occurrences(X, y, c, t, n - 1)

FirstFitReturned == nfit = 1 /\ call.op = "fit" /\ call.outcome = "ok"

\* C1: after one fit(X, y) on a fresh instance, class_counts has exactly the
\* labels of y as keys, and class_counts[c] is the total length of the
\* documents labelled c plus p * alpha, p the number of distinct tokens of X.
C1_TotalCount ==
  FirstFitReturned =>
    /\ DOMAIN class_counts = Range(call.y)
    /\ Val(p) = Cardinality(Vocabulary(call.X))
    /\ \A c \in Range(call.y) :
         class_counts[c] = TokensOfLabel(call.X, call.y, c, Len(call.y))
                             + Cardinality(Vocabulary(call.X)) * alpha

\* A first fit that returned, with two documents under one label and two
\* distinct tokens.
C1_Witness ==
  /\ FirstFitReturned
  /\ Len(call.y) = 2 /\ call.y[1] = call.y[2]
  /\ Val(p) = 2
  /\ class_counts[call.y[1]] = 3 + 2 * alpha

\* C2: after fit(X, y), for every label c of y and every token t of X,
\* class_feature_counts[c][t] is the number of occurrences of t in the
\* documents labelled c, smoothed by alpha.
C2_PerTokenCounts ==
  FirstFitReturned =>
    \A c \in Range(call.y) : \A t \in Vocabulary(call.X) :
      /\ c \in DOMAIN class_feature_counts
      /\ t \in DOMAIN class_feature_counts[c]
      /\ class_feature_counts[c][t]
           = Occurrences(call.X, call.y, c, t, Len(call.y)) + alpha

\* C3: predict or score on an instance on which fit was never called fails
\* with the InvalidState error.
C3_NotFittedError ==
  (call.op \in {"predict", "score"} /\ nfit = 0) => call.outcome = "InvalidState"

\* C4: fit(X, y) with X empty or len(y) # len(X) fails with InvalidInput and
\* leaves no fitted state behind.
C4_InvalidInput ==
  (/\ call.op = "fit"
   /\ (Len(call.X) = 0 \/ Len(call.y) # Len(call.X))) =>
    /\ call.outcome = "InvalidInput"
    /\ (nfit = 1 => (class_freq = None /\ p = None /\ class_counts = <<>>))

\* C9: once fit has been called, a posteriors, predict or score call leaves
\* class_freq, class_counts, class_feature_counts, p and alpha as they were.
C9_FittedFieldsImmutable ==
  [][(nfit > 0 /\ call'.op \in {"posteriors", "predict", "score"}) =>
       UNCHANGED <<class_freq, class_counts, class_feature_counts, p, alpha>>]_vars

\* A failed predict on an instance whose fit gave totals for one label only.
C9_Witness ==
  /\ nfit > 0
  /\ call.op = "predict" /\ call.outcome = "TypeError"
  /\ Cardinality(DOMAIN class_counts) = 1
  /\ class_freq # None

\* C10: after any sequence of fit calls ending with fit(X, y), class_counts,
\* class_freq and p are those of a fresh instance with the same alpha on which
\* only fit(X, y) was called.
C10_LastFitOnly ==
  (call.op = "fit" /\ call.outcome = "ok") =>
    /\ class_freq = Some(Counter(call.y))
    /\ p = Some(Cardinality(Vocabulary(call.X)))
    /\ DOMAIN class_counts = Range(call.y)
    /\ \A c \in Range(call.y) :
         class_counts[c] = TokensOfLabel(call.X, call.y, c, Len(call.y))
                             + Cardinality(Vocabulary(call.X)) * alpha

TrainEnded == pc \in {"returned", "raised"}

\* C5: predict(X) for X of shape (N, D) completes and returns N labels, each
\* in 0..C-1 and the index of the first maximum of its row of scores.
C5_PredictLabels ==
  ret.op = "predict" =>
    /\ ret.outcome = "ok"
    /\ Len(ret.value) = Len(ret.X)
    /\ \A i \in 1..Len(ret.X) :
         /\ ret.value[i] \in 0..(OutputSize - 1)
         /\ ret.value[i] = ArgMax(Scores(params, ret.X)[i])

\* C6: loss(X, y, reg) with labels in 0..C-1 completes and returns
\* (loss, grads) with grads keyed like params; loss(X) returns only the
\* scores, of shape (N, C).
C6_LossResult ==
  ret.op = "loss" =>
    IF ret.y = None
      THEN /\ ret.outcome = "ok" /\ ret.kind = "scores"
           /\ Len(ret.value) = ret.N
           /\ \A i \in 1..ret.N : Len(ret.value[i]) = OutputSize
      ELSE (\A i \in DOMAIN Val(ret.y) : Val(ret.y)[i] \in 0..(OutputSize - 1)) =>
             /\ ret.outcome = "ok" /\ ret.kind = "loss_grads"
             /\ ret.value = DOMAIN params

\* C7: train with num_iters = 0 returns empty loss, training-accuracy and
\* validation-accuracy histories and leaves W1, b1, W2, b2 as they were.
C7_ZeroIters ==
  (TrainEnded /\ tr.num_iters = 0) =>
    /\ pc = "returned" /\ ret.outcome = "ok"
    /\ ret.value.loss_history = <<>>
    /\ ret.value.train_acc_history = <<>>
    /\ ret.value.val_acc_history = <<>>
    /\ params = tr.params_at_call

\* A train call with num_iters = 0 on more than one example that has returned.
C7_Witness ==
  /\ pc = "returned" /\ tr.num_iters = 0
  /\ tr.num_train = 2 /\ tr.batch_size = 1

\* Number of full epochs of `ipe` iterations contained in k iterations
FullEpochs(k, ipe) == (k * ipe.den) \div ipe.num

\* C8: a train call asked for k iterations runs them, and the number of
\* learning-rate decays and the length of each accuracy history are then the
\* number of full epochs of max(num_train / batch_size, 1) iterations in k.
C8_EpochCount ==
  TrainEnded =>
    /\ pc = "returned" /\ tr.it = tr.num_iters
    /\ tr.decays = FullEpochs(tr.num_iters, tr.iterations_per_epoch)
    /\ Len(ret.value.train_acc_history)
         = FullEpochs(tr.num_iters, tr.iterations_per_epoch)
    /\ Len(ret.value.val_acc_history)
         = FullEpochs(tr.num_iters, tr.iterations_per_epoch)
====
